---- MODULE Spec2Model ----
(***************************************************************************)
(* Model of the agent helper functions (03-Challenge/agent_tools.py,       *)
(* 06-Challenge/utils/agent_tools.py) and of the agent callbacks           *)
(* (06-Challenge/utils/agent_callbacks.py).                                *)
(*                                                                         *)
(* The functions are stateless.  A behaviour is one invocation of one      *)
(* function: the action draws the arguments and the outcomes of the        *)
(* external services from bounded sets and applies the function.  A        *)
(* function is an operator that yields a completion record                 *)
(*     [k |-> "val", v |-> value, ev |-> events]     it returned v         *)
(*     [k |-> "raise", e |-> class, ev |-> events]   an exception escaped  *)
(*     [k |-> "hang", ev |-> events]                 it never returns      *)
(* where ev is the sequence of observable events of the call, in program   *)
(* order: function entries, HTTP requests, model calls, prints, log lines. *)
(*                                                                         *)
(* Python values are tagged records.  JSON strings are atomic (the code    *)
(* only tests them for equality and truthiness); the texts the code strips *)
(* and lower-cases are sequences of one-character strings.                 *)
(***************************************************************************)
EXTENDS Integers, Sequences, FiniteSets, TLC

VARIABLES pc, op, variant, env, out

vars == <<pc, op, variant, env, out>>

(***************************************************************************)
(* Bounds of the model                                                     *)
(***************************************************************************)
MaxCoord == 1      \* coordinates range over 0..MaxCoord
MaxResults == 2    \* longest "results" list of a geocoding response
MaxPeriods == 1    \* longest "periods" list of a forecast response
MaxPad == 1        \* longest run of whitespace around a model answer

(***************************************************************************)
(* Python values                                                           *)
(***************************************************************************)
None == [t |-> "null"]
JStr(s) == [t |-> "str", s |-> s]
JNum(n) == [t |-> "num", n |-> n]
JList(items) == [t |-> "list", items |-> items]
JDict(kv) == [t |-> "dict", kv |-> kv]
PyTuple(items) == [t |-> "tuple", items |-> items]
PyBool(b) == [t |-> "bool", b |-> b]
PyText(c) == [t |-> "text", c |-> c]
NotJson == [t |-> "notjson"]
EmptyDict == JDict(<<>>)

\* bool(x) of a Python value
Truthy(x) ==
    CASE x.t = "null" -> FALSE
      [] x.t = "str" -> x.s # ""
      [] x.t = "text" -> x.c # <<>>
      [] x.t = "num" -> x.n # 0
      [] x.t = "list" -> x.items # <<>>
      [] x.t = "tuple" -> x.items # <<>>
      [] x.t = "dict" -> DOMAIN x.kv # {}
      [] x.t = "bool" -> x.b
      [] OTHER -> TRUE

\* x == 'literal' for a str literal
EqStr(x, lit) == x.t = "str" /\ x.s = lit

(***************************************************************************)
(* Completions and events                                                  *)
(***************************************************************************)
Val(v) == [k |-> "val", v |-> v, ev |-> <<>>]
Raise(e) == [k |-> "raise", e |-> e, ev |-> <<>>]
Hang == [k |-> "hang", ev |-> <<>>]

Event(kind, name, arg, timeout) ==
    [kind |-> kind, name |-> name, arg |-> arg, timeout |-> timeout]
Emit(e) == [k |-> "val", v |-> None, ev |-> <<e>>]
Enter(fn) == Emit(Event("call", fn, <<>>, <<>>))
PrintLine(what) == Emit(Event("print", what, <<>>, <<>>))

\* statement sequencing: run r, then F on its value; an exception or a hang
\* of r ends the sequence
Bind(r, F(_)) ==
    IF r.k = "val"
    THEN LET r2 == F(r.v) IN [r2 EXCEPT !.ev = r.ev \o @]
    ELSE r

\* try: r / except <classes in caught>: handler
TryExcept(r, caught, handler(_)) ==
    IF r.k = "raise" /\ r.e \in caught
    THEN LET h == handler(r.e) IN [h EXCEPT !.ev = r.ev \o @]
    ELSE r

(***************************************************************************)
(* Exception classes                                                       *)
(***************************************************************************)
RequestException ==
    {"ConnectionError", "Timeout", "HTTPError", "JSONDecodeError",
     "MissingSchema"}
ParseErrors == {"KeyError", "IndexError"}
AnyException ==
    RequestException \cup ParseErrors \cup
    {"TypeError", "AttributeError", "ValueError", "GoogleAPIError"}

(***************************************************************************)
(* The requests library, as the code uses it                               *)
(***************************************************************************)
HttpTimeout == 10

\* requests.get(url, ..., timeout=timeout) against a service whose outcome
\* is o; timeout is <<seconds>> or <<>> when no timeout is passed; a url
\* that is not a URL is rejected before anything is sent
RequestsGet(endpoint, arg, urlOk, timeout, o) ==
    Bind(Emit(Event("http_get", endpoint, arg, timeout)), LAMBDA u:
        CASE ~urlOk -> Raise("MissingSchema")
          [] o.net = "conn_error" -> Raise("ConnectionError")
          [] o.net = "no_answer" ->
                IF timeout # <<>> THEN Raise("Timeout") ELSE Hang
          [] OTHER -> Val(o))

\* response.raise_for_status()
RaiseForStatus(resp) ==
    IF resp.status >= 400 /\ resp.status < 600
    THEN Raise("HTTPError") ELSE Val(None)

\* response.json()
ResponseJson(resp) ==
    IF resp.body.t = "notjson" THEN Raise("JSONDecodeError")
    ELSE Val(resp.body)

\* obj[key], key a str or an int
GetItem(obj, key) ==
    CASE obj.t = "dict" ->
            IF key.t = "str" /\ key.s \in DOMAIN obj.kv
            THEN Val(obj.kv[key.s]) ELSE Raise("KeyError")
      [] obj.t = "list" ->
            IF key.t # "num" THEN Raise("TypeError")
            ELSE IF key.n + 1 \in DOMAIN obj.items
                 THEN Val(obj.items[key.n + 1]) ELSE Raise("IndexError")
      [] obj.t = "str" ->
            IF key.t # "num" THEN Raise("TypeError")
            ELSE IF obj.s # "" /\ key.n = 0
                 THEN Val(JStr("char")) ELSE Raise("IndexError")
      [] OTHER -> Raise("TypeError")

\* obj.get(key, default)
DictGet(obj, key, default) ==
    IF obj.t # "dict" THEN Raise("AttributeError")
    ELSE IF key \in DOMAIN obj.kv THEN Val(obj.kv[key]) ELSE Val(default)

(***************************************************************************)
(* get_lat_lon_from_address                                                *)
(***************************************************************************)
\* mutant: the status field is not tested
get_lat_lon_from_address_NoStatusCheck(address, geo) ==
    Bind(Enter("get_lat_lon_from_address"), LAMBDA u0:
    TryExcept(
      TryExcept(
        Bind(RequestsGet("geocode", <<address>>, TRUE, <<HttpTimeout>>, geo),
             LAMBDA response:
        Bind(RaiseForStatus(response), LAMBDA u1:
        Bind(ResponseJson(response), LAMBDA data:
        Bind(GetItem(data, JStr("status")), LAMBDA status:
            Bind(GetItem(data, JStr("results")), LAMBDA results:
            Bind(GetItem(results, JNum(0)), LAMBDA first:
            Bind(GetItem(first, JStr("geometry")), LAMBDA geometry:
            Bind(GetItem(geometry, JStr("location")), LAMBDA location:
            Bind(GetItem(location, JStr("lat")), LAMBDA lat:
            Bind(GetItem(location, JStr("lng")), LAMBDA lng:
              Val(PyTuple(<<lat, lng>>)))))))))))),
        RequestException,
        LAMBDA e: Bind(PrintLine("network request error"),
                       LAMBDA u3: Val(None))),
      ParseErrors,
      LAMBDA e: Bind(PrintLine("error parsing the Geocoding API response"),
                     LAMBDA u4: Val(None))))

get_lat_lon_from_address(address, geo) ==
    Bind(Enter("get_lat_lon_from_address"), LAMBDA u0:
    TryExcept(
      TryExcept(
        Bind(RequestsGet("geocode", <<address>>, TRUE, <<HttpTimeout>>, geo),
             LAMBDA response:
        Bind(RaiseForStatus(response), LAMBDA u1:
        Bind(ResponseJson(response), LAMBDA data:
        Bind(GetItem(data, JStr("status")), LAMBDA status:
          IF EqStr(status, "OK")
          THEN
            Bind(GetItem(data, JStr("results")), LAMBDA results:
            Bind(GetItem(results, JNum(0)), LAMBDA first:
            Bind(GetItem(first, JStr("geometry")), LAMBDA geometry:
            Bind(GetItem(geometry, JStr("location")), LAMBDA location:
            Bind(GetItem(location, JStr("lat")), LAMBDA lat:
            Bind(GetItem(location, JStr("lng")), LAMBDA lng:
              Val(PyTuple(<<lat, lng>>))))))))
          ELSE
            Bind(DictGet(data, "error_message", JStr("")), LAMBDA msg:
            Bind(DictGet(data, "status", None), LAMBDA st:
            Bind(PrintLine("Geocoding API Error"), LAMBDA u2:
              Val(None)))))))),
        RequestException,
        LAMBDA e: Bind(PrintLine("network request error"),
                       LAMBDA u3: Val(None))),
      ParseErrors,
      LAMBDA e: Bind(PrintLine("error parsing the Geocoding API response"),
                     LAMBDA u4: Val(None))))

(***************************************************************************)
(* get_weather_forecast                                                    *)
(***************************************************************************)
ForecastUrls ==
    {"https://api.weather.gov/gridpoints/MTR/1,2/forecast",
     "https://api.weather.gov/gridpoints/LWX/3,4/forecast"}
IsUrl(x) == x.t = "str" /\ x.s \in ForecastUrls

\* mutant: the forecast URL is not tested before it is requested
get_weather_forecast_NoUrlCheck(latitude, longitude, points, forecast) ==
    Bind(Enter("get_weather_forecast"), LAMBDA u0:
    TryExcept(
      Bind(RequestsGet("points", <<latitude, longitude>>, TRUE,
                       <<HttpTimeout>>, points), LAMBDA points_response:
      Bind(RaiseForStatus(points_response), LAMBDA u1:
      Bind(ResponseJson(points_response), LAMBDA points_data:
      Bind(DictGet(points_data, "properties", EmptyDict), LAMBDA props:
      Bind(DictGet(props, "forecast", None), LAMBDA forecast_url:
          Bind(RequestsGet("forecast", <<forecast_url>>, IsUrl(forecast_url),
                           <<HttpTimeout>>, forecast),
               LAMBDA forecast_response:
          Bind(RaiseForStatus(forecast_response), LAMBDA u3:
          Bind(ResponseJson(forecast_response), LAMBDA forecast_data:
          Bind(DictGet(forecast_data, "properties", EmptyDict), LAMBDA fprops:
          Bind(DictGet(fprops, "periods", None), LAMBDA periods:
            Val(periods))))))))))),
      AnyException,
      LAMBDA e: Bind(PrintLine("error"), LAMBDA u4: Val(None))))

get_weather_forecast(latitude, longitude, points, forecast) ==
    Bind(Enter("get_weather_forecast"), LAMBDA u0:
    TryExcept(
    TryExcept(
    TryExcept(
      Bind(RequestsGet("points", <<latitude, longitude>>, TRUE,
                       <<HttpTimeout>>, points), LAMBDA points_response:
      Bind(RaiseForStatus(points_response), LAMBDA u1:
      Bind(ResponseJson(points_response), LAMBDA points_data:
      Bind(DictGet(points_data, "properties", EmptyDict), LAMBDA props:
      Bind(DictGet(props, "forecast", None), LAMBDA forecast_url:
        IF ~Truthy(forecast_url)
        THEN Bind(PrintLine("could not find forecast URL"),
                  LAMBDA u2: Val(None))
        ELSE
          Bind(RequestsGet("forecast", <<forecast_url>>, IsUrl(forecast_url),
                           <<HttpTimeout>>, forecast),
               LAMBDA forecast_response:
          Bind(RaiseForStatus(forecast_response), LAMBDA u3:
          Bind(ResponseJson(forecast_response), LAMBDA forecast_data:
          Bind(DictGet(forecast_data, "properties", EmptyDict), LAMBDA fprops:
          Bind(DictGet(fprops, "periods", None), LAMBDA periods:
            Val(periods))))))))))),
      RequestException,
      LAMBDA e: Bind(PrintLine("network request error"),
                     LAMBDA u4: Val(None))),
      ParseErrors,
      LAMBDA e: Bind(PrintLine("error parsing the NWS API response"),
                     LAMBDA u5: Val(None))),
      AnyException,
      LAMBDA e: Bind(PrintLine("unexpected error"),
                     LAMBDA u6: Val(None))))

(***************************************************************************)
(* get_weather                                                             *)
(***************************************************************************)
\* a, b = v
Unpack2(v) ==
    IF v.t \in {"tuple", "list"}
    THEN IF Len(v.items) = 2 THEN Val(v.items) ELSE Raise("ValueError")
    ELSE Raise("TypeError")

\* mutant: no try/except around the two steps
get_weather_NoTry(address, geo, points, forecast) ==
    Bind(Enter("get_weather"), LAMBDA u0:
      Bind(get_lat_lon_from_address(address, geo), LAMBDA latlon:
      Bind(Unpack2(latlon), LAMBDA pair:
      Bind(get_weather_forecast(pair[1], pair[2], points, forecast),
           LAMBDA fc: Val(fc)))))

get_weather(address, geo, points, forecast) ==
    Bind(Enter("get_weather"), LAMBDA u0:
    TryExcept(
      Bind(get_lat_lon_from_address(address, geo), LAMBDA latlon:
      Bind(Unpack2(latlon), LAMBDA pair:
      Bind(get_weather_forecast(pair[1], pair[2], points, forecast),
           LAMBDA fc: Val(fc)))),
      AnyException,
      LAMBDA e: Bind(PrintLine("Something broke"), LAMBDA u1: Val(None))))

(***************************************************************************)
(* str.strip() and str.lower() on sequences of characters                  *)
(***************************************************************************)
Whitespace == {" ", "\n"}
UpperToLower ==
    "Y" :> "y" @@ "E" :> "e" @@ "S" :> "s" @@ "N" :> "n" @@ "O" :> "o"

RECURSIVE StrLStrip(_)
StrLStrip(s) ==
    IF s # <<>> /\ Head(s) \in Whitespace THEN StrLStrip(Tail(s)) ELSE s

RECURSIVE StrRStrip(_)
StrRStrip(s) ==
    IF s # <<>> /\ s[Len(s)] \in Whitespace
    THEN StrRStrip(SubSeq(s, 1, Len(s) - 1)) ELSE s

\* mutant: lstrip() in place of strip()
StrStrip_LeftOnly(s) == StrLStrip(s)

StrStrip(s) == StrRStrip(StrLStrip(s))

StrLower(s) ==
    [i \in 1..Len(s) |->
        IF s[i] \in DOMAIN UpperToLower THEN UpperToLower[s[i]] ELSE s[i]]

(***************************************************************************)
(* The Vertex AI client, as the code uses it                               *)
(***************************************************************************)
ModelName(v) ==
    IF v = "03-Challenge" THEN "gemini-2.0-flash" ELSE "gemini-2.5-flash"

\* vertexai.init(project=..., location=...)
VertexaiInit(llm) ==
    IF llm.kind = "init_error" THEN Raise("GoogleAPIError") ELSE Val(None)

\* GenerativeModel(name).generate_content(prompt); no timeout is passed
GenerateContent(name, question, user_query, llm) ==
    Bind(Emit(Event("llm_generate", name, <<question, user_query>>, <<>>)),
         LAMBDA u:
        CASE llm.kind = "generate_error" -> Raise("GoogleAPIError")
          [] llm.kind = "no_answer" -> Hang
          [] OTHER -> Val(llm))

\* response.text
ResponseText(response) ==
    IF response.kind = "text" THEN Val(PyText(response.text))
    ELSE Raise("ValueError")

(***************************************************************************)
(* is_address_in_us, is_user_query_mean                                    *)
(***************************************************************************)
is_address_in_us(v, user_query, llm) ==
    Bind(Enter("is_address_in_us"), LAMBDA u0:
    TryExcept(
      Bind(VertexaiInit(llm), LAMBDA u1:
      Bind(GenerateContent(ModelName(v), "addresses in the US?",
                           user_query, llm), LAMBDA response:
      Bind(ResponseText(response), LAMBDA text:
        LET text_response == StrLower(StrStrip(text.c))
        IN  Val(PyBool(text_response = <<"y", "e", "s">>))))),
      AnyException,
      LAMBDA e: Bind(PrintLine("error while checking address location"),
                     LAMBDA u2: Val(PyBool(FALSE)))))

is_user_query_mean(v, user_query, llm) ==
    Bind(Enter("is_user_query_mean"), LAMBDA u0:
    TryExcept(
      Bind(VertexaiInit(llm), LAMBDA u1:
      Bind(GenerateContent(ModelName(v), "malicious or mean?",
                           user_query, llm), LAMBDA response:
      Bind(ResponseText(response), LAMBDA text:
        LET text_response == StrLower(StrStrip(text.c))
        IN  Val(PyBool(text_response = <<"y", "e", "s">>))))),
      AnyException,
      LAMBDA e: Bind(PrintLine("error during query safety check"),
                     LAMBDA u2: Val(PyBool(FALSE)))))

(***************************************************************************)
(* The callbacks                                                           *)
(***************************************************************************)
Part(text) == [t |-> "Part", text |-> text]
Content(role, parts) == [t |-> "Content", role |-> role, parts |-> parts]
LlmRequest(contents) == [t |-> "LlmRequest", contents |-> contents]
LlmResponse(text) == [t |-> "LlmResponse", role |-> "model", text |-> text]

NonUsResponse ==
    LlmResponse("Message contains non-US addresses, please only query for US addresses.")
BeNiceResponse == LlmResponse("Be nice.")

\* seq[-1]
GetLast(seq) ==
    IF seq.t # "list" THEN Raise("TypeError")
    ELSE IF seq.items = <<>> THEN Raise("IndexError")
         ELSE Val(seq.items[Len(seq.items)])

\* last.role == "user" and last.parts and last.parts[0].text
HasUserText(last) ==
    /\ last.role = "user"
    /\ Truthy(last.parts)
    /\ Truthy(last.parts.items[1].text)

user_prompt_log_callback(llm_request) ==
    Bind(Enter("user_prompt_log_callback"), LAMBDA u0:
      IF Truthy(llm_request.contents)
      THEN Bind(GetLast(llm_request.contents), LAMBDA last:
             IF HasUserText(last)
             THEN LET user_text == StrStrip(last.parts.items[1].text.c)
                  IN  Bind(Emit(Event("log_info", "USER >>", user_text, <<>>)),
                           LAMBDA u1: Val(None))
             ELSE Val(None))
      ELSE Val(None))

\* mutant: the mean check is made before the address check
user_query_check_callback_MeanFirst(llm_request, llm1, llm2) ==
    Bind(Enter("user_query_check_callback"), LAMBDA u0:
    TryExcept(
      Bind(GetLast(llm_request.contents), LAMBDA last:
        IF HasUserText(last)
        THEN
          LET user_text == StrStrip(last.parts.items[1].text.c) IN
          Bind(is_user_query_mean("06-Challenge", user_text, llm2),
               LAMBDA mean:
            IF Truthy(mean)
            THEN Val(BeNiceResponse)
            ELSE
              Bind(is_address_in_us("06-Challenge", user_text, llm1),
                   LAMBDA inUs:
                IF ~Truthy(inUs) THEN Val(NonUsResponse) ELSE Val(None)))
        ELSE Val(None)),
      AnyException,
      LAMBDA e: Bind(Emit(Event("log_error", "Woops", <<>>, <<>>)),
                     LAMBDA u1: Val(None))))

user_query_check_callback(llm_request, llm1, llm2) ==
    Bind(Enter("user_query_check_callback"), LAMBDA u0:
    TryExcept(
      Bind(GetLast(llm_request.contents), LAMBDA last:
        IF HasUserText(last)
        THEN
          LET user_text == StrStrip(last.parts.items[1].text.c) IN
          Bind(is_address_in_us("06-Challenge", user_text, llm1), LAMBDA inUs:
            IF ~Truthy(inUs)
            THEN Val(NonUsResponse)
            ELSE
              Bind(is_user_query_mean("06-Challenge", user_text, llm2),
                   LAMBDA mean:
                IF Truthy(mean) THEN Val(BeNiceResponse) ELSE Val(None)))
        ELSE Val(None)),
      AnyException,
      LAMBDA e: Bind(Emit(Event("log_error", "Woops", <<>>, <<>>)),
                     LAMBDA u1: Val(None))))

\* mutant: the prompt is logged whatever the moderation returns
chained_before_callback_AlwaysLogs(llm_request, llm1, llm2) ==
    Bind(Enter("chained_before_callback"), LAMBDA u0:
    Bind(user_query_check_callback(llm_request, llm1, llm2),
         LAMBDA moderation_result:
    Bind(user_prompt_log_callback(llm_request), LAMBDA u1:
      IF moderation_result.t # "null"
      THEN Val(moderation_result)
      ELSE Val(None))))

chained_before_callback(llm_request, llm1, llm2) ==
    Bind(Enter("chained_before_callback"), LAMBDA u0:
    Bind(user_query_check_callback(llm_request, llm1, llm2),
         LAMBDA moderation_result:
      IF moderation_result.t # "null"
      THEN Val(moderation_result)
      ELSE Bind(user_prompt_log_callback(llm_request), LAMBDA u1:
             Val(None))))

(***************************************************************************)
(* Outcomes of the external services                                       *)
(***************************************************************************)
SeqsUpTo(S, n) == UNION {[1..m -> S] : m \in 0..n}

HttpOutcomes(bodies) ==
    {[net |-> "conn_error", status |-> 0, body |-> NotJson],
     [net |-> "no_answer", status |-> 0, body |-> NotJson],
     [net |-> "ok", status |-> 500, body |-> NotJson],
     [net |-> "ok", status |-> 200, body |-> NotJson]}
    \cup {[net |-> "ok", status |-> 200, body |-> b] : b \in bodies}

Coords == {c \in (0..MaxCoord) \X (0..MaxCoord) : c[1] # c[2]}
Location(c) == JDict("lat" :> JNum(c[1]) @@ "lng" :> JNum(c[2]))
ResultItem(loc) == JDict("geometry" :> JDict("location" :> loc))
ResultItems ==
    {ResultItem(Location(c)) : c \in Coords}
    \cup {ResultItem(JDict("lat" :> JNum(0))), None}
ResultsValues ==
    {JList(s) : s \in SeqsUpTo(ResultItems, MaxResults)}
    \cup {None, EmptyDict, JStr("results")}
StatusValues ==
    {JStr("OK"), JStr("ZERO_RESULTS"), JStr("REQUEST_DENIED"), None}
GeoBodies ==
    {JDict("status" :> s @@ "results" :> r) :
        s \in StatusValues, r \in ResultsValues}
    \cup {JDict("results" :> r) : r \in ResultsValues}
    \cup {JDict("status" :> s) : s \in StatusValues}
    \cup {JDict("status" :> JStr("REQUEST_DENIED")
                @@ "error_message" :> JStr("denied")),
          EmptyDict, JList(<<>>), None, JStr("OK"), JNum(0)}
GeoOutcomes == HttpOutcomes(GeoBodies)

PointsBodies ==
    {JDict("properties" :> JDict("forecast" :> u)) :
        u \in {JStr(x) : x \in ForecastUrls}
               \cup {JStr(""), JStr("not a url"), None, JNum(5)}}
    \cup {JDict("properties" :> EmptyDict), JDict("properties" :> None),
          EmptyDict, JList(<<>>)}
PointsOutcomes == HttpOutcomes(PointsBodies)

Period(name) == JDict("name" :> JStr(name))
PeriodsValues ==
    {JList(s) : s \in SeqsUpTo({Period("Tonight"), Period("Thursday")},
                               MaxPeriods)}
    \cup {None}
ForecastBodies ==
    {JDict("properties" :> JDict("periods" :> p)) : p \in PeriodsValues}
    \cup {JDict("properties" :> EmptyDict), JDict("properties" :> None),
          EmptyDict, JList(<<>>)}
ForecastOutcomes == HttpOutcomes(ForecastBodies)

LlmFailures ==
    {[kind |-> k, text |-> <<>>] :
        k \in {"init_error", "generate_error", "no_answer", "no_text"}}
LlmAnswer(text) == [kind |-> "text", text |-> text]

Pads == SeqsUpTo(Whitespace, MaxPad)
YesSpellings == {"y", "Y"} \X {"e", "E"} \X {"s", "S"}
Cores ==
    YesSpellings
    \cup {<<"n", "o">>, <<"N", "O">>, <<>>, <<"y", "e">>,
          <<"y", "e", "s", ".">>, <<"y", "e", "s", "s">>,
          <<"y", " ", "e", "s">>, <<"y", "e", "s", "\n", "n", "o">>}
LlmOutcomes ==
    LlmFailures \cup {LlmAnswer(l \o c \o r) : l \in Pads, c \in Cores, r \in Pads}
CallbackLlmOutcomes ==
    LlmFailures
    \cup {LlmAnswer(t) : t \in {<<"y", "e", "s">>, <<" ", "Y", "e", "s", "\n">>,
                                <<"n", "o">>, <<>>}}

UserQueries == {<<"h", "i">>, <<>>}

UserTexts ==
    {None, PyText(<<>>), PyText(<<" ">>), PyText(<<"h", "i">>),
     PyText(<<" ", "h", "i", "\n">>)}
PartsValues ==
    {None, JList(<<>>)}
    \cup {JList(<<Part(t)>>) : t \in UserTexts}
    \cup {JList(<<Part(PyText(<<"h", "i">>)), Part(PyText(<<"x">>))>>)}
LastContents == {Content(r, p) : r \in {"user", "model"}, p \in PartsValues}
History ==
    {Content("user", JList(<<Part(PyText(<<"o", "l", "d">>))>>)),
     Content("model", JList(<<Part(PyText(<<"o", "k">>))>>))}
Requests ==
    {LlmRequest(None), LlmRequest(JList(<<>>))}
    \cup {LlmRequest(JList(<<c>>)) : c \in LastContents}
    \cup {LlmRequest(JList(<<h, c>>)) : h \in History, c \in LastContents}

Addresses == {"1600 Amphitheatre Parkway", "10 Downing Street"}
Variants == {"03-Challenge", "06-Challenge"}

(***************************************************************************)
(* The state machine: one invocation per behaviour                         *)
(***************************************************************************)
Init ==
    /\ pc = "idle"
    /\ op = "none"
    /\ variant = "none"
    /\ env = <<>>
    /\ out = Val(None)

Invoke(name, v, e, r) ==
    /\ pc' = "done"
    /\ op' = name
    /\ variant' = v
    /\ env' = e
    /\ out' = r

CallGetLatLon ==
    /\ pc = "idle"
    /\ \E v \in Variants, address \in Addresses, geo \in GeoOutcomes :
        Invoke("get_lat_lon_from_address", v,
               [address |-> address, geo |-> geo],
               get_lat_lon_from_address(address, geo))

CallGetWeatherForecast ==
    /\ pc = "idle"
    /\ \E v \in Variants, c \in Coords,
       points \in PointsOutcomes, forecast \in ForecastOutcomes :
        Invoke("get_weather_forecast", v,
               [latitude |-> JNum(c[1]), longitude |-> JNum(c[2]),
                points |-> points, forecast |-> forecast],
               get_weather_forecast(JNum(c[1]), JNum(c[2]), points, forecast))

CallGetWeather ==
    /\ pc = "idle"
    /\ \E address \in Addresses, geo \in GeoOutcomes,
       points \in PointsOutcomes, forecast \in ForecastOutcomes :
        Invoke("get_weather", "06-Challenge",
               [address |-> address, geo |-> geo,
                points |-> points, forecast |-> forecast],
               get_weather(address, geo, points, forecast))

CallIsAddressInUs ==
    /\ pc = "idle"
    /\ \E v \in Variants, q \in UserQueries, llm \in LlmOutcomes :
        Invoke("is_address_in_us", v, [user_query |-> q, llm |-> llm],
               is_address_in_us(v, q, llm))

CallIsUserQueryMean ==
    /\ pc = "idle"
    /\ \E v \in Variants, q \in UserQueries, llm \in LlmOutcomes :
        Invoke("is_user_query_mean", v, [user_query |-> q, llm |-> llm],
               is_user_query_mean(v, q, llm))

CallUserPromptLog ==
    /\ pc = "idle"
    /\ \E req \in Requests :
        Invoke("user_prompt_log_callback", "06-Challenge",
               [llm_request |-> req], user_prompt_log_callback(req))

CallUserQueryCheck ==
    /\ pc = "idle"
    /\ \E req \in Requests, llm1 \in CallbackLlmOutcomes,
          llm2 \in CallbackLlmOutcomes :
        Invoke("user_query_check_callback", "06-Challenge",
               [llm_request |-> req, llm1 |-> llm1, llm2 |-> llm2],
               user_query_check_callback(req, llm1, llm2))

CallChainedBefore ==
    /\ pc = "idle"
    /\ \E req \in Requests, llm1 \in CallbackLlmOutcomes,
          llm2 \in CallbackLlmOutcomes :
        Invoke("chained_before_callback", "06-Challenge",
               [llm_request |-> req, llm1 |-> llm1, llm2 |-> llm2],
               chained_before_callback(req, llm1, llm2))

Next ==
    \/ CallGetLatLon
    \/ CallGetWeatherForecast
    \/ CallGetWeather
    \/ CallIsAddressInUs
    \/ CallIsUserQueryMean
    \/ CallUserPromptLog
    \/ CallUserQueryCheck
    \/ CallChainedBefore

Spec == Init /\ [][Next]_vars

(***************************************************************************)
(* Vocabulary of the properties                                            *)
(***************************************************************************)
Done(fn) == pc = "done" /\ op = fn
Returned(r) == r.k = "val"
ReturnedNone(r) == r.k = "val" /\ r.v.t = "null"
SameValue(a, b) == a.t = b.t /\ a = b
Has(obj, key) == obj.t = "dict" /\ key \in DOMAIN obj.kv

EventsOf(ev, kind) == SelectSeq(ev, LAMBDA e : e.kind = kind)
CallsTo(ev, fn) ==
    Len(SelectSeq(ev, LAMBDA e : e.kind = "call" /\ e.name = fn))
FirstCallTo(ev, fn) ==
    CHOOSE i \in DOMAIN ev :
        /\ ev[i].kind = "call" /\ ev[i].name = fn
        /\ \A j \in 1..(i - 1) : ~(ev[j].kind = "call" /\ ev[j].name = fn)

HelperFunctions ==
    {"get_lat_lon_from_address", "get_weather_forecast", "get_weather",
     "is_address_in_us", "is_user_query_mean"}

\* C1: whatever the external services do, no exception propagates out of a
\* helper function (it returns its sentinel instead).
C1_NoExceptionEscapes ==
    (pc = "done" /\ op \in HelperFunctions) => out.k # "raise"

\* C2: chained_before_callback runs the moderation check first; a response of
\* the moderation is returned as it is and the user prompt is not logged;
\* when the moderation returns None the log callback runs exactly once, after
\* the moderation, and the chain returns None.
C2_ChainModerateThenLog ==
    Done("chained_before_callback") =>
        LET mod == user_query_check_callback(env.llm_request, env.llm1,
                                             env.llm2)
            n == Len(mod.ev)
        IN  /\ Len(out.ev) >= 1 + n
            /\ out.ev[2].kind = "call"
            /\ out.ev[2].name = "user_query_check_callback"
            /\ SubSeq(out.ev, 2, 1 + n) = mod.ev
            /\ (Returned(mod) /\ mod.v.t # "null") =>
                  /\ Returned(out) /\ SameValue(out.v, mod.v)
                  /\ CallsTo(out.ev, "user_prompt_log_callback") = 0
                  /\ EventsOf(out.ev, "log_info") = <<>>
            /\ ReturnedNone(mod) =>
                  /\ ReturnedNone(out)
                  /\ CallsTo(out.ev, "user_prompt_log_callback") = 1
                  /\ FirstCallTo(out.ev, "user_prompt_log_callback") = n + 2

C2_Witness_ModerationResponseReturned ==
    /\ Done("chained_before_callback")
    /\ Returned(out) /\ out.v.t = "LlmResponse"

\* C3: on a request whose last content is a user content with a non-empty
\* text in its first part, user_query_check_callback answers "non-US
\* addresses" when is_address_in_us is False, else "Be nice." when
\* is_user_query_mean is True, else None; the address check comes first and
\* the mean check is not called when the address check fails.
LastIsUserText(req) ==
    /\ req.contents.t = "list" /\ req.contents.items # <<>>
    /\ LET last == req.contents.items[Len(req.contents.items)]
       IN  /\ last.role = "user"
           /\ last.parts.t = "list" /\ last.parts.items # <<>>
           /\ last.parts.items[1].text.t = "text"
           /\ last.parts.items[1].text.c # <<>>

LastUserText(req) ==
    req.contents.items[Len(req.contents.items)].parts.items[1].text.c

C3_ModerationVerdict ==
    (Done("user_query_check_callback") /\ LastIsUserText(env.llm_request)) =>
        LET q == StrStrip(LastUserText(env.llm_request))
            inUs == is_address_in_us("06-Challenge", q, env.llm1)
            mean == is_user_query_mean("06-Challenge", q, env.llm2)
        IN  /\ out.ev[2].kind = "call" /\ out.ev[2].name = "is_address_in_us"
            /\ (Returned(inUs) /\ ~inUs.v.b) =>
                  /\ Returned(out) /\ SameValue(out.v, NonUsResponse)
                  /\ CallsTo(out.ev, "is_user_query_mean") = 0
                  /\ Len(EventsOf(out.ev, "llm_generate")) <= 1
            /\ (Returned(inUs) /\ inUs.v.b) =>
                  /\ CallsTo(out.ev, "is_user_query_mean") = 1
                  /\ FirstCallTo(out.ev, "is_address_in_us")
                       < FirstCallTo(out.ev, "is_user_query_mean")
                  /\ (Returned(mean) /\ mean.v.b) =>
                        Returned(out) /\ SameValue(out.v, BeNiceResponse)
                  /\ (Returned(mean) /\ ~mean.v.b) => ReturnedNone(out)

C3_Witness_BeNice ==
    /\ Done("user_query_check_callback")
    /\ LastIsUserText(env.llm_request)
    /\ Returned(out) /\ SameValue(out.v, BeNiceResponse)

\* C4: get_weather never raises; it returns None when either step fails; when
\* the geocoding returns None the forecast function is not called; when the
\* geocoding returns (lat, lon) the result is what get_weather_forecast
\* returns for that lat and lon.
C4_GetWeather ==
    Done("get_weather") =>
        LET g == get_lat_lon_from_address(env.address, env.geo)
        IN  /\ Returned(out)
            /\ ~(Returned(g) /\ g.v.t = "tuple") =>
                  /\ ReturnedNone(out)
                  /\ CallsTo(out.ev, "get_weather_forecast") = 0
                  /\ \A i \in DOMAIN out.ev :
                        out.ev[i].kind = "http_get" =>
                            out.ev[i].name = "geocode"
            /\ (Returned(g) /\ g.v.t = "tuple") =>
                  LET f == get_weather_forecast(g.v.items[1], g.v.items[2],
                                                env.points, env.forecast)
                  IN  /\ CallsTo(out.ev, "get_weather_forecast") = 1
                      /\ SameValue(out.v, f.v)
                      /\ \E i \in DOMAIN out.ev :
                            /\ out.ev[i].kind = "http_get"
                            /\ out.ev[i].name = "points"
                            /\ out.ev[i].arg = <<g.v.items[1], g.v.items[2]>>

C4_Witness_NotGeocoded ==
    /\ Done("get_weather")
    /\ ReturnedNone(get_lat_lon_from_address(env.address, env.geo))
    /\ ReturnedNone(out)

\* C5: get_weather_forecast requests the points endpoint first and the
\* forecast endpoint second, at most two requests in all; the forecast
\* request is sent only after a successful points request whose JSON holds a
\* non-empty properties.forecast; otherwise the result is None and no second
\* request is sent; on success the result is properties.periods of the
\* forecast response.
HttpSucceeded(o) == o.net = "ok" /\ o.status < 400 /\ o.body.t # "notjson"
HasForecastUrl(o) ==
    /\ HttpSucceeded(o)
    /\ Has(o.body, "properties")
    /\ Has(o.body.kv["properties"], "forecast")
    /\ o.body.kv["properties"].kv["forecast"].t \in {"str", "num"}
    /\ o.body.kv["properties"].kv["forecast"] \notin {JStr(""), JNum(0)}
HasPeriods(o) ==
    /\ HttpSucceeded(o)
    /\ Has(o.body, "properties")
    /\ Has(o.body.kv["properties"], "periods")

C5_PointsThenForecast ==
    Done("get_weather_forecast") =>
        LET gets == EventsOf(out.ev, "http_get")
        IN  /\ Len(gets) \in {1, 2}
            /\ gets[1].name = "points"
            /\ gets[1].arg = <<env.latitude, env.longitude>>
            /\ Len(gets) = 2 =>
                  /\ gets[2].name = "forecast"
                  /\ HasForecastUrl(env.points)
                  /\ gets[2].arg
                       = <<env.points.body.kv["properties"].kv["forecast"]>>
            /\ ~HasForecastUrl(env.points) =>
                  Len(gets) = 1 /\ ReturnedNone(out)
            /\ HasForecastUrl(env.points) => Len(gets) = 2
            /\ (Len(gets) = 2 /\ HasPeriods(env.forecast)
                  /\ IsUrl(gets[2].arg[1])) =>
                  /\ Returned(out)
                  /\ SameValue(out.v,
                        env.forecast.body.kv["properties"].kv["periods"])

C5_Witness_PeriodsReturned ==
    /\ Done("get_weather_forecast")
    /\ Len(EventsOf(out.ev, "http_get")) = 2
    /\ Returned(out) /\ out.v.t = "list" /\ out.v.items # <<>>

\* C6: is_address_in_us and is_user_query_mean return True exactly when the
\* model call completes and its text is "yes" up to surrounding whitespace
\* and letter case; for any other text and for any exception of the
\* initialisation or the generation they return False; nothing escapes.
IsYesText(s) ==
    \E i \in 0..Len(s) :
        /\ i + 3 <= Len(s)
        /\ \A j \in 1..i : s[j] \in Whitespace
        /\ \A j \in (i + 4)..Len(s) : s[j] \in Whitespace
        /\ s[i + 1] \in {"y", "Y"}
        /\ s[i + 2] \in {"e", "E"}
        /\ s[i + 3] \in {"s", "S"}

C6_TrueIffYes ==
    (pc = "done" /\ op \in {"is_address_in_us", "is_user_query_mean"}) =>
        /\ out.k # "raise"
        /\ (Returned(out) /\ SameValue(out.v, PyBool(TRUE)))
              <=> (env.llm.kind = "text" /\ IsYesText(env.llm.text))
        /\ env.llm.kind # "no_answer" =>
              Returned(out) /\ out.v.t = "bool"

C6_Witness_PaddedYes ==
    /\ pc = "done" /\ op \in {"is_address_in_us", "is_user_query_mean"}
    /\ env.llm.kind = "text"
    /\ env.llm.text \notin {<<"y", "e", "s">>}
    /\ Returned(out) /\ SameValue(out.v, PyBool(TRUE))

\* C7: every external call (the HTTP GETs and the generate_content calls) is
\* issued with a timeout, and so every function and callback returns.
C7_EveryCallHasTimeout ==
    pc = "done" =>
        /\ \A i \in DOMAIN out.ev :
              out.ev[i].kind \in {"http_get", "llm_generate"} =>
                  out.ev[i].timeout # <<>>
        /\ out.k # "hang"

\* C8: get_lat_lon_from_address gives a result other than None only when the
\* HTTP request succeeded, the status field is "OK" and the results list is
\* not empty, and the result is then (lat, lng) of geometry.location of the
\* first result; with any other status field the result is None.
C8_FirstResultOrNone ==
    Done("get_lat_lon_from_address") =>
        LET b == env.geo.body
        IN  /\ (Returned(out) /\ out.v.t # "null") =>
                  /\ HttpSucceeded(env.geo)
                  /\ Has(b, "status") /\ SameValue(b.kv["status"], JStr("OK"))
                  /\ Has(b, "results")
                  /\ b.kv["results"].t = "list"
                  /\ b.kv["results"].items # <<>>
                  /\ LET first == b.kv["results"].items[1]
                     IN  /\ Has(first, "geometry")
                         /\ Has(first.kv["geometry"], "location")
                         /\ LET loc == first.kv["geometry"].kv["location"]
                            IN  /\ Has(loc, "lat") /\ Has(loc, "lng")
                                /\ out.v = PyTuple(<<loc.kv["lat"],
                                                     loc.kv["lng"]>>)
            /\ (Has(b, "status")
                  /\ ~SameValue(b.kv["status"], JStr("OK"))) =>
                  ReturnedNone(out)

C8_Witness_SecondResultIgnored ==
    /\ Done("get_lat_lon_from_address")
    /\ Returned(out) /\ out.v.t = "tuple"
    /\ Len(env.geo.body.kv["results"].items) = 2
    /\ env.geo.body.kv["results"].items[2]
         # env.geo.body.kv["results"].items[1]

====
